---- MODULE Spec2Model ----
(***************************************************************************)
(* A model of megantcs/EventBus (EventBus.hpp): ComparableCallback,        *)
(* SimpleUserEventHandler and EventBus<TypeMutex>, with the threads that   *)
(* call Subscribe, Unsubscribe and Publish and the user callbacks that     *)
(* Publish invokes (which may call the bus again).                         *)
(*                                                                         *)
(* One action is one step of one thread.  A call is a frame on the         *)
(* thread's stack; a frame's pc names the statement it is about to run.    *)
(* Fields of the model that the program does not have (ghosts, used only   *)
(* to state properties): an entry's seq, a Publish frame's invoked and     *)
(* startSeq, nextSeq, subStarted, subReturned, and a0, b0 of obj.          *)
(*                                                                         *)
(* Spec is the program that uses the bus; ObjSpec is a program that only   *)
(* builds two callbacks and compares, releases and invokes them.           *)
(***************************************************************************)
EXTENDS Integers, Sequences, FiniteSets, TLC

(* ------------------------------------------------------------------ *)
(* Bounds of the model.                                                 *)
(* ------------------------------------------------------------------ *)

\* Subscribe calls made on the bus in one run.
MaxSubscribes == 2

\* User callbacks that are running on one thread at a time and may call the
\* bus (a callback nested deeper only returns).
MaxDepth == 1

(* ------------------------------------------------------------------ *)
(* EventPriority                                                        *)
(* ------------------------------------------------------------------ *)

VeryLow == 27

Low == 43

Default == 59

High == 75

VeryHigh == 91

EventPriority == {VeryLow, Low, Default, High, VeryHigh}

\* The priorities the modelled callers pass to Subscribe.
PriorityInputs == {Default, High}

(* ------------------------------------------------------------------ *)
(* ComparableCallback<T, void>                                          *)
(* ------------------------------------------------------------------ *)

\* Player::attack: attack_event.damage += 150
AttackDamage == 150

\* BaseInfo(inst, mptr, type)
BaseInfo(inst, mptr, type) ==
    [instance |-> inst, method_ptr |-> mptr, instance_type |-> type]

\* BaseInfo::operator==
BaseInfoEq(a, b) ==
    /\ a.instance = b.instance
    /\ a.method_ptr = b.method_ptr
    /\ a.instance_type = b.instance_type

\* ComparableCallback<T, void>(raw_func ptr): func(ptr) is empty for a null
\* pointer.
MakeFunc(T, ptr) ==
    [T             |-> T,
     callback_type |-> "Function",
     func_ptr      |-> ptr,
     method_info   |-> BaseInfo("nullptr", "nullptr", "void"),
     func          |-> IF ptr = "nullptr" THEN "empty" ELSE ptr]

\* ComparableCallback<T, void>(U (C::*ptr)(T&), C* instance)
MakeMethod(T, ptr, inst, type) ==
    [T             |-> T,
     callback_type |-> "Method",
     func_ptr      |-> "nullptr",
     method_info   |-> BaseInfo(inst, ptr, type),
     func          |-> "closure"]

\* the operator comparing func_ptr alone, whatever the variant
CallbackEqFuncPtr(a, b) == a.func_ptr = b.func_ptr

\* ComparableCallback::operator==
CallbackEq(a, b) ==
    IF a.callback_type # b.callback_type THEN FALSE
    ELSE IF a.callback_type = "Function" THEN a.func_ptr = b.func_ptr
    ELSE BaseInfoEq(a.method_info, b.method_info)

\* ComparableCallback::release: func = nullptr; func_ptr = nullptr
Release(cb) == [cb EXCEPT !.func = "empty", !.func_ptr = "nullptr"]

\* ComparableCallback::invoke: func(arg) is called if func is not empty
Invokes(cb) == cb.func # "empty"

\* What the user code that cb wraps does to the damage d of the event it
\* is given: base_attack, Player::attack (called by the closure of a
\* method callback), or code that leaves the event alone.
Body(cb, d) ==
    IF cb.func = "base_attack" THEN (IF d <= 0 THEN 1 ELSE d)
    ELSE IF cb.func = "closure" /\ cb.method_info.method_ptr = "attack"
         THEN d + AttackDamage
    ELSE d

\* invoke with its parameter taken by value
InvokeArgByValue(cb, d) == d

\* ComparableCallback::invoke(T &arg): the event after the call
InvokeArg(cb, d) == IF Invokes(cb) THEN Body(cb, d) ELSE d

\* The event types of the program (the TypeEvent of each instantiation).
EventTypes == {"A", "B"}

\* The callbacks the modelled callers build: for event type A,
\* make_func(base_attack) and make_func(&Player::attack, &player); for
\* event type B, make_func(on_b).
cbFunc == MakeFunc("A", "base_attack")

cbMethod == MakeMethod("A", "attack", "player", "Player")

cbOther == MakeFunc("B", "on_b")

Callbacks == {cbFunc, cbMethod, cbOther}

(* ------------------------------------------------------------------ *)
(* State                                                                *)
(* ------------------------------------------------------------------ *)

Threads == {"t1", "t2"}

MainThread == "t1"

NoThread == "none"

VARIABLES
    mutexPolicy,   \* TypeMutex of the bus: "std_mutex" or "null_mutex"
    threads,       \* the threads of the program that use the bus
    handlers,      \* EventBus::handlers: the event types that have a handler
    callbacks_,    \* SimpleUserEventHandler::callbacks_ of each event type
    mutex_,        \* EventBus::mutex_: the thread that holds it
    handlerMutex,  \* SimpleUserEventHandler::mutex_ of each event type
    stack,         \* each thread's call stack, innermost frame last
    nextSeq,       \* ghost: the number the next push_back gives its entry
    subStarted,    \* ghost: event types a Subscribe call was started for
    subReturned,   \* ghost: event types a Subscribe call has returned for
    obj            \* two ComparableCallback objects of user code, a and b

vars == <<mutexPolicy, threads, handlers, callbacks_, mutex_, handlerMutex, stack,
          nextSeq, subStarted, subReturned, obj>>

\* One (callback, priority) pair of callbacks_, with its ghost number.
Entry(cb, p, n) == [first |-> cb, second |-> p, seq |-> n]

\* The event a caller of Publish passes: its damage, as AttackEvent is
\* constructed.
NewEvent == 0

\* A call: op(cb, prio) for Subscribe and Unsubscribe, op(arg) with an arg
\* of type ev for Publish, and the call of cb by Publish for "callback".
Frame(o, e, cb, p) ==
    [op |-> o, pc |-> "lock", ev |-> e, cb |-> cb, prio |-> p,
     copy |-> <<>>, i |-> 0, invoked |-> <<>>, startSeq |-> 0,
     ret |-> "none", arg |-> NewEvent]

Top(t) == stack[t][Len(stack[t])]

HasTop(t, o, p) ==
    /\ stack[t] # <<>>
    /\ Top(t).op = o
    /\ Top(t).pc = p

\* stack with thread t's innermost frame replaced by f
SetTop(t, f) ==
    [stack EXCEPT ![t] = [@ EXCEPT ![Len(@)] = f]]

Push(t, f) == [stack EXCEPT ![t] = Append(@, f)]


\* one key for every event type
IndexShared(e) == "A"

\* std::type_index(typeid(TypeEvent)): the key of the type's handler
Index(e) == e

\* a handler with no entries counted as no handler
HandlerFoundNonEmpty(e) ==
    Index(e) \in handlers /\ callbacks_[Index(e)] # <<>>

\* handlers.find(index) != handlers.end()
HandlerFound(e) == Index(e) \in handlers

(* ------------------------------------------------------------------ *)
(* TypeMutex: std::mutex or std::null_mutex                             *)
(* ------------------------------------------------------------------ *)

\* lock() returns: at once for null_mutex, when the mutex is free for
\* std::mutex.
CanLock(owner) == mutexPolicy = "null_mutex" \/ owner = NoThread

\* the holder after thread t's lock(): null_mutex::lock() does nothing
AfterLock(owner, t) == IF mutexPolicy = "std_mutex" THEN t ELSE owner

\* the holder after unlock()
AfterUnlock(owner) == IF mutexPolicy = "std_mutex" THEN NoThread ELSE owner

(* ------------------------------------------------------------------ *)
(* SimpleUserEventHandler                                               *)
(* ------------------------------------------------------------------ *)

\* the comparator with its operands the wrong way round
CompAscending(a, b) == a.second < b.second

\* the comparator add_callback gives std::sort
Comp(a, b) == a.second > b.second

Perms(n) == {p \in [1..n -> 1..n] : \A i, j \in 1..n : i # j => p[i] # p[j]}

\* std::sort(first, last, comp): some permutation of s in which no element
\* is ordered by comp before an element that precedes it.  The order of
\* elements that comp does not order is unspecified: every such permutation
\* is a result.
StdSort(s) ==
    {r \in {[k \in 1..Len(s) |-> s[p[k]]] : p \in Perms(Len(s))} :
        \A i, j \in 1..Len(r) : i < j => ~Comp(r[j], r[i])}

\* the loop of find_callback_it: the index of the first entry whose callback
\* equals callback, 0 for callbacks_.end()
FindCallbackIndex(s, callback) ==
    IF \E k \in 1..Len(s) : CallbackEq(s[k].first, callback)
    THEN CHOOSE k \in 1..Len(s) :
            /\ CallbackEq(s[k].first, callback)
            /\ \A m \in 1..(k - 1) : ~CallbackEq(s[m].first, callback)
    ELSE 0

\* callbacks_.erase(it)
Erase(s, k) == [m \in 1..(Len(s) - 1) |-> IF m < k THEN s[m] ELSE s[m + 1]]

(* ------------------------------------------------------------------ *)
(* User code: the calls of a thread and of a running callback           *)
(* ------------------------------------------------------------------ *)

\* the callbacks running on thread t
Depth(t) == Cardinality({k \in 1..Len(stack[t]) : stack[t][k].op = "callback"})

\* Subscribe calls that have not reached their push_back
Pending ==
    Cardinality({t \in Threads : \E k \in 1..Len(stack[t]) :
        /\ stack[t][k].op = "Subscribe"
        /\ stack[t][k].pc \in {"lock", "add_callback"}})

\* Thread t's user code is running: at top level, or in a callback that
\* Publish has invoked.  Callbacks that call the bus are explored in the
\* programs of one thread.
CanCall(t) ==
    /\ t \in threads
    /\ \/ stack[t] = <<>>
       \/ /\ HasTop(t, "callback", "running")
          /\ threads = {MainThread}
          /\ Depth(t) <= MaxDepth

\* the stack after thread t's user code calls the bus with frame f
Call(t, f) == Push(t, f)

(* ------------------------------------------------------------------ *)
(* EventBus::Subscribe                                                  *)
(* ------------------------------------------------------------------ *)

CallSubscribe(t, cb, p) ==
    /\ CanCall(t)
    /\ nextSeq + Pending <= MaxSubscribes
    /\ stack' = Call(t, Frame("Subscribe", cb.T, cb, p))
    /\ subStarted' = subStarted \cup {cb.T}
    /\ UNCHANGED <<obj, mutexPolicy, threads, handlers, callbacks_, mutex_, handlerMutex,
                   nextSeq, subReturned>>

\* Subscribe making a new handler whether or not the type has one
CreatesHandlerAlways(e) == TRUE

\* handlers.find(index) == handlers.end(): Subscribe makes the handler
CreatesHandler(e) == ~HandlerFound(e)

\* lock_guard lock(mutex_); if the type has no handler, handlers[index] is
\* set to a new handler, whose list is empty
SubscribeLock(t) ==
    /\ HasTop(t, "Subscribe", "lock")
    /\ CanLock(mutex_)
    /\ mutex_' = AfterLock(mutex_, t)
    /\ handlers' = handlers \cup {Index(Top(t).ev)}
    /\ callbacks_' = IF CreatesHandler(Top(t).ev)
                     THEN [callbacks_ EXCEPT ![Index(Top(t).ev)] = <<>>]
                     ELSE callbacks_
    /\ stack' = SetTop(t, [Top(t) EXCEPT !.pc = "add_callback"])
    /\ UNCHANGED <<obj, mutexPolicy, threads, handlerMutex, nextSeq,
                   subStarted, subReturned>>

\* an add_callback that leaves out a callback equal to one in the list
PushBackIfAbsent(s, entry) ==
    IF \E k \in 1..Len(s) : CallbackEq(s[k].first, entry.first)
    THEN s
    ELSE Append(s, entry)

\* callbacks_.push_back(std::make_pair(callback, priority))
PushBack(s, entry) == Append(s, entry)

\* add_callback: lock_guard lock(mutex_); callbacks_.push_back(...)
AddCallbackPushBack(t) ==
    /\ HasTop(t, "Subscribe", "add_callback")
    /\ CanLock(handlerMutex[Index(Top(t).ev)])
    /\ handlerMutex' = [handlerMutex EXCEPT
            ![Index(Top(t).ev)] = AfterLock(@, t)]
    /\ callbacks_' = [callbacks_ EXCEPT
            ![Index(Top(t).ev)] = PushBack(@, Entry(Top(t).cb, Top(t).prio, nextSeq))]
    /\ nextSeq' = nextSeq + 1
    /\ stack' = SetTop(t, [Top(t) EXCEPT !.pc = "sort"])
    /\ UNCHANGED <<obj, mutexPolicy, threads, handlers, mutex_, subStarted, subReturned>>

\* add_callback: std::sort(...); then both lock_guards unlock and
\* Subscribe returns
AddCallbackSort(t) ==
    /\ HasTop(t, "Subscribe", "sort")
    /\ \E r \in StdSort(callbacks_[Index(Top(t).ev)]) :
            callbacks_' = [callbacks_ EXCEPT ![Index(Top(t).ev)] = r]
    /\ handlerMutex' = [handlerMutex EXCEPT ![Index(Top(t).ev)] = AfterUnlock(@)]
    /\ mutex_' = AfterUnlock(mutex_)
    /\ stack' = SetTop(t, [Top(t) EXCEPT !.pc = "done", !.ret = "void"])
    /\ subReturned' = subReturned \cup {Top(t).ev}
    /\ UNCHANGED <<obj, mutexPolicy, threads, handlers, nextSeq, subStarted>>

\* a call of the bus returns to the user code that made it
Return(t) ==
    /\ stack[t] # <<>>
    /\ Top(t).op # "callback"
    /\ Top(t).pc = "done"
    /\ stack' = [stack EXCEPT ![t] = SubSeq(@, 1, Len(@) - 1)]
    /\ UNCHANGED <<obj, mutexPolicy, threads, handlers, callbacks_, mutex_, handlerMutex,
                   nextSeq, subStarted, subReturned>>

(* ------------------------------------------------------------------ *)
(* EventBus::Unsubscribe                                                *)
(* ------------------------------------------------------------------ *)

CallUnsubscribe(t, cb) ==
    /\ CanCall(t)
    /\ stack' = Call(t, Frame("Unsubscribe", cb.T, cb, Default))
    /\ UNCHANGED <<obj, mutexPolicy, threads, handlers, callbacks_, mutex_, handlerMutex,
                   nextSeq, subStarted, subReturned>>

\* lock_guard lock(mutex_); handlers.find(index): return false if absent
UnsubscribeLock(t) ==
    /\ HasTop(t, "Unsubscribe", "lock")
    /\ CanLock(mutex_)
    /\ IF HandlerFound(Top(t).ev)
       THEN /\ mutex_' = AfterLock(mutex_, t)
            /\ stack' = SetTop(t, [Top(t) EXCEPT !.pc = "delete_callback"])
       ELSE /\ mutex_' = mutex_
            /\ stack' = SetTop(t, [Top(t) EXCEPT !.pc = "done",
                                                  !.ret = "false"])
    /\ UNCHANGED <<obj, mutexPolicy, threads, handlers, callbacks_, handlerMutex, nextSeq,
                   subStarted, subReturned>>

\* delete_callback: lock_guard lock(mutex_)
DeleteCallbackLock(t) ==
    /\ HasTop(t, "Unsubscribe", "delete_callback")
    /\ CanLock(handlerMutex[Index(Top(t).ev)])
    /\ handlerMutex' = [handlerMutex EXCEPT ![Index(Top(t).ev)] = AfterLock(@, t)]
    /\ stack' = SetTop(t, [Top(t) EXCEPT !.pc = "find_callback_it"])
    /\ UNCHANGED <<obj, mutexPolicy, threads, handlers, callbacks_, mutex_, nextSeq,
                   subStarted, subReturned>>

\* find_callback_it, called by delete_callback: lock_guard lock(mutex_), the
\* scan, and the unlock of its lock_guard.  The frame's i is the iterator
\* it returns.
FindCallbackIt(t) ==
    /\ HasTop(t, "Unsubscribe", "find_callback_it")
    /\ CanLock(handlerMutex[Index(Top(t).ev)])
    /\ handlerMutex' = [handlerMutex EXCEPT ![Index(Top(t).ev)] = AfterUnlock(@)]
    /\ stack' = SetTop(t, [Top(t) EXCEPT
            !.pc = "erase",
            !.i = FindCallbackIndex(callbacks_[Index(Top(t).ev)], Top(t).cb)])
    /\ UNCHANGED <<obj, mutexPolicy, threads, handlers, callbacks_, mutex_, nextSeq,
                   subStarted, subReturned>>

\* find_callback_it locks a std::mutex that its caller delete_callback, on
\* the same thread, holds: the behaviour is undefined.
Relock(t) ==
    /\ HasTop(t, "Unsubscribe", "find_callback_it")
    /\ mutexPolicy = "std_mutex"
    /\ handlerMutex[Index(Top(t).ev)] = t

\* Outcome 1 of the relock: lock() never returns (a plain pthread mutex).
RelockDeadlock(t) ==
    /\ Relock(t)
    /\ stack' = SetTop(t, [Top(t) EXCEPT !.pc = "deadlocked"])
    /\ UNCHANGED <<obj, mutexPolicy, threads, handlers, callbacks_, mutex_, handlerMutex,
                   nextSeq, subStarted, subReturned>>

\* Outcome 2: lock() throws std::system_error (an error-checking mutex); the
\* two lock_guards of delete_callback and Unsubscribe unlock as the
\* exception leaves the call, and the user code that called catches it.
RelockThrows(t) ==
    /\ Relock(t)
    /\ handlerMutex' = [handlerMutex EXCEPT ![Index(Top(t).ev)] = NoThread]
    /\ mutex_' = NoThread
    /\ stack' = SetTop(t, [Top(t) EXCEPT !.pc = "done", !.ret = "exception"])
    /\ UNCHANGED <<obj, mutexPolicy, threads, handlers, callbacks_, nextSeq, subStarted,
                   subReturned>>

\* Outcome 3: lock() returns (a mutex whose lock is not checked); the scan
\* runs and the lock_guard of find_callback_it unlocks the mutex.
RelockReturns(t) ==
    /\ Relock(t)
    /\ handlerMutex' = [handlerMutex EXCEPT ![Index(Top(t).ev)] = NoThread]
    /\ stack' = SetTop(t, [Top(t) EXCEPT
            !.pc = "erase",
            !.i = FindCallbackIndex(callbacks_[Index(Top(t).ev)], Top(t).cb)])
    /\ UNCHANGED <<obj, mutexPolicy, threads, handlers, callbacks_, mutex_, nextSeq,
                   subStarted, subReturned>>

\* delete_callback: callbacks_.erase(it) if it != callbacks_.end(); then both
\* lock_guards unlock and Unsubscribe returns true.  (After RelockReturns
\* the handler's mutex is already unlocked, and stays so.)
DeleteCallbackErase(t) ==
    /\ HasTop(t, "Unsubscribe", "erase")
    /\ callbacks_' = [callbacks_ EXCEPT ![Index(Top(t).ev)] =
            IF Top(t).i # 0 THEN Erase(@, Top(t).i) ELSE @]
    /\ handlerMutex' = [handlerMutex EXCEPT ![Index(Top(t).ev)] = AfterUnlock(@)]
    /\ mutex_' = AfterUnlock(mutex_)
    /\ stack' = SetTop(t, [Top(t) EXCEPT !.pc = "done", !.ret = "true"])
    /\ UNCHANGED <<obj, mutexPolicy, threads, handlers, nextSeq, subStarted, subReturned>>

(* ------------------------------------------------------------------ *)
(* EventBus::Publish                                                    *)
(* ------------------------------------------------------------------ *)

CallPublish(t, e) ==
    /\ CanCall(t)
    /\ stack' = Call(t, Frame("Publish", e, MakeFunc(e, "nullptr"), Default))
    /\ UNCHANGED <<obj, mutexPolicy, threads, handlers, callbacks_, mutex_, handlerMutex,
                   nextSeq, subStarted, subReturned>>

\* a Publish that does not wait for the registry lock
PublishNeverWaits(owner) == TRUE

\* the lock_guard of Publish on mutex_ is constructed: lock() returns
PublishCanLock(owner) == CanLock(owner)

\* lock_guard lock(mutex_); handlers.find(typeid): return false if absent
PublishLock(t) ==
    /\ HasTop(t, "Publish", "lock")
    /\ PublishCanLock(mutex_)
    /\ IF HandlerFound(Top(t).ev)
       THEN /\ mutex_' = AfterLock(mutex_, t)
            /\ stack' = SetTop(t, [Top(t) EXCEPT !.pc = "get_callbacks"])
       ELSE /\ mutex_' = mutex_
            /\ stack' = SetTop(t, [Top(t) EXCEPT !.pc = "done",
                                                  !.ret = "false"])
    /\ UNCHANGED <<obj, mutexPolicy, threads, handlers, callbacks_, handlerMutex, nextSeq,
                   subStarted, subReturned>>

\* the entries get_callbacks returns: a copy of callbacks_
GetCallbacksResult(e) == callbacks_[Index(e)]

\* the lock_guard of Publish living to the end of the function
SnapshotKeepsLock(owner) == owner

\* the holder of mutex_ at the end of the block of Publish that declares
\* the lock_guard: the guard unlocks before the loop
SnapshotUnlock(owner) == AfterUnlock(owner)

\* callbacks_copy = handler->get_callbacks(), which locks nothing; then the
\* lock_guard of the block unlocks mutex_
GetCallbacks(t) ==
    /\ HasTop(t, "Publish", "get_callbacks")
    /\ mutex_' = SnapshotUnlock(mutex_)
    /\ stack' = SetTop(t, [Top(t) EXCEPT
            !.pc = "deliver",
            !.copy = GetCallbacksResult(Top(t).ev),
            !.i = 1,
            !.startSeq = nextSeq])
    /\ UNCHANGED <<obj, mutexPolicy, threads, handlers, callbacks_, handlerMutex, nextSeq,
                   subStarted, subReturned>>

\* a loop that steps over the entry after the one it invoked
SkipEntry(i) == i + 2

\* the range-for of Publish going on to the next entry of callbacks_copy
NextEntry(i) == i + 1

\* the loop walking callbacks_ itself, as invoke_all does
DeliveredLive(f) == callbacks_[Index(f.ev)]

\* the entries the loop of Publish walks: callbacks_copy
Delivered(f) == f.copy

\* one turn of the loop: callback.invoke(arg), which calls func if it is
\* not empty
Invoke(t) ==
    /\ HasTop(t, "Publish", "deliver")
    /\ Top(t).i <= Len(Delivered(Top(t)))
    /\ LET entry == Delivered(Top(t))[Top(t).i]
           called == [Top(t) EXCEPT !.invoked = Append(@, entry),
                                    !.arg = InvokeArg(entry.first, @)]
       IN  stack' =
            IF Invokes(entry.first)
            THEN [stack EXCEPT ![t] = Append([@ EXCEPT ![Len(@)] = called],
                    [Frame("callback", Top(t).ev, entry.first, entry.second)
                        EXCEPT !.pc = "running"])]
            ELSE SetTop(t, [called EXCEPT !.i = NextEntry(@)])
    /\ UNCHANGED <<obj, mutexPolicy, threads, handlers, callbacks_, mutex_, handlerMutex,
                   nextSeq, subStarted, subReturned>>

\* the user callback returns to the loop of Publish
CallbackReturn(t) ==
    /\ HasTop(t, "callback", "running")
    /\ stack' = [stack EXCEPT ![t] =
            [SubSeq(@, 1, Len(@) - 1) EXCEPT ![Len(@) - 1].i = NextEntry(@)]]
    /\ UNCHANGED <<obj, mutexPolicy, threads, handlers, callbacks_, mutex_, handlerMutex,
                   nextSeq, subStarted, subReturned>>

\* the loop is over: return true
PublishDone(t) ==
    /\ HasTop(t, "Publish", "deliver")
    /\ Top(t).i > Len(Delivered(Top(t)))
    /\ stack' = SetTop(t, [Top(t) EXCEPT !.pc = "done", !.ret = "true"])
    /\ UNCHANGED <<obj, mutexPolicy, threads, handlers, callbacks_, mutex_, handlerMutex,
                   nextSeq, subStarted, subReturned>>

(* ------------------------------------------------------------------ *)
(* ComparableCallback objects in user code                              *)
(* ------------------------------------------------------------------ *)

\* The function pointers, member-function pointers, receivers and owner
\* types user code builds callbacks from.
FuncPtrs == {"base_attack", "other_attack", "nullptr"}

MethodPtrs == {"attack", "defend"}

Instances == {"player", "enemy"}

InstanceTypes == {"Player", "Enemy"}

\* The callbacks make_func builds from them.
CallbackValues ==
    {MakeFunc("A", f) : f \in FuncPtrs}
    \cup {MakeMethod("A", m, inst, type) :
            m \in MethodPtrs, inst \in Instances, type \in InstanceTypes}

\* Two objects a and b as constructed; a0 and b0 keep the constructed
\* values (ghosts), eq is the result of the last a == b, ran whether the
\* last a.invoke(arg) called a function.
Objects(x, y) ==
    [a |-> x, b |-> y, a0 |-> x, b0 |-> y, eq |-> "none", ran |-> "none"]

busVars == <<mutexPolicy, threads, handlers, callbacks_, mutex_, handlerMutex,
             stack, nextSeq, subStarted, subReturned>>

\* a == b
Compare ==
    /\ obj' = [obj EXCEPT
            !.eq = IF CallbackEq(obj.a, obj.b) THEN "true" ELSE "false"]
    /\ UNCHANGED busVars

\* a.release()
ReleaseA ==
    /\ obj' = [obj EXCEPT !.a = Release(@), !.eq = "none", !.ran = "none"]
    /\ UNCHANGED busVars

\* b.release()
ReleaseB ==
    /\ obj' = [obj EXCEPT !.b = Release(@), !.eq = "none"]
    /\ UNCHANGED busVars

\* a.invoke(arg)
InvokeA ==
    /\ obj' = [obj EXCEPT !.ran = IF Invokes(obj.a) THEN "called" ELSE "no-op"]
    /\ UNCHANGED busVars

(* ------------------------------------------------------------------ *)
(* The program                                                          *)
(* ------------------------------------------------------------------ *)

Init ==
    /\ \/ mutexPolicy = "null_mutex" /\ threads = {MainThread}
       \/ mutexPolicy = "std_mutex" /\ threads \in {{MainThread}, Threads}
    /\ handlers = {}
    /\ callbacks_ = [e \in EventTypes |-> <<>>]
    /\ mutex_ = NoThread
    /\ handlerMutex = [e \in EventTypes |-> NoThread]
    /\ stack = [t \in Threads |-> <<>>]
    /\ nextSeq = 1
    /\ subStarted = {}
    /\ subReturned = {}
    /\ obj = Objects(cbFunc, cbMethod)

Next ==
    \E t \in Threads :
        \/ \E cb \in Callbacks, p \in PriorityInputs : CallSubscribe(t, cb, p)
        \/ SubscribeLock(t)
        \/ AddCallbackPushBack(t)
        \/ AddCallbackSort(t)
        \/ \E cb \in Callbacks : CallUnsubscribe(t, cb)
        \/ UnsubscribeLock(t)
        \/ DeleteCallbackLock(t)
        \/ FindCallbackIt(t)
        \/ RelockDeadlock(t)
        \/ RelockThrows(t)
        \/ RelockReturns(t)
        \/ DeleteCallbackErase(t)
        \/ \E e \in EventTypes : CallPublish(t, e)
        \/ PublishLock(t)
        \/ GetCallbacks(t)
        \/ Invoke(t)
        \/ CallbackReturn(t)
        \/ PublishDone(t)
        \/ Return(t)

Spec == Init /\ [][Next]_vars

\* A program that only builds two callbacks and compares, releases and
\* invokes them: the bus is not used.
ObjInit ==
    /\ mutexPolicy = "null_mutex"
    /\ threads = {MainThread}
    /\ handlers = {}
    /\ callbacks_ = [e \in EventTypes |-> <<>>]
    /\ mutex_ = NoThread
    /\ handlerMutex = [e \in EventTypes |-> NoThread]
    /\ stack = [t \in Threads |-> <<>>]
    /\ nextSeq = 1
    /\ subStarted = {}
    /\ subReturned = {}
    /\ \E x, y \in CallbackValues : obj = Objects(x, y)

ObjNext ==
    \/ Compare
    \/ ReleaseA
    \/ ReleaseB
    \/ InvokeA

ObjSpec == ObjInit /\ [][ObjNext]_vars

(* ------------------------------------------------------------------ *)
(* Properties                                                           *)
(* ------------------------------------------------------------------ *)

\* every frame of every thread
AllFrames ==
    UNION {{stack[t][k] : k \in 1..Len(stack[t])} : t \in Threads}

PublishFrames == {f \in AllFrames : f.op = "Publish"}

\* a Subscribe call is between the push_back and the sort of add_callback
\* on the list of event type e
InAddCallback(e) ==
    \E f \in AllFrames : f.op = "Subscribe" /\ f.pc = "sort" /\ f.ev = e

\* the priorities of s never increase from one entry to the next
NonIncreasing(s) ==
    \A i, j \in 1..Len(s) : i < j => s[i].second >= s[j].second

\* entries of s with the same priority are in the order of their push_back
TiesInSubscriptionOrder(s) ==
    \A i, j \in 1..Len(s) :
        (i < j /\ s[i].second = s[j].second) => s[i].seq < s[j].seq

(* C1: whenever no Subscribe call is inside add_callback on it, the handler
   list of every event type is in non-increasing priority order, and the
   callbacks every Publish has invoked so far are the first entries of its
   snapshot, invoked in non-increasing priority order. *)
C1_PriorityOrder ==
    /\ \A e \in EventTypes : ~InAddCallback(e) => NonIncreasing(callbacks_[e])
    /\ \A f \in PublishFrames :
        /\ NonIncreasing(f.invoked)
        /\ Len(f.invoked) <= Len(f.copy)
        /\ f.invoked = SubSeq(f.copy, 1, Len(f.invoked))

\* C1 happens: a Publish has invoked a callback of higher priority before
\* one of lower priority that was subscribed earlier.
C1_Witness ==
    \E f \in PublishFrames :
        /\ Len(f.invoked) >= 2
        /\ f.invoked[1].second > f.invoked[2].second
        /\ f.invoked[1].seq > f.invoked[2].seq

\* s in the order a stable sort by descending priority leaves it in: ties in
\* the order of their push_back
StableOrder(s) ==
    CHOOSE r \in {[k \in 1..Len(s) |-> s[p[k]]] : p \in Perms(Len(s))} :
        NonIncreasing(r) /\ TiesInSubscriptionOrder(r)

\* the callbacks of the entries of s, in order
CallbacksOf(s) == [k \in 1..Len(s) |-> s[k].first]

(* C2: the callbacks of the list of every event type (when no Subscribe call
   is inside add_callback on it), and of the snapshot of every Publish, are
   in the order of a stable sort: by descending priority, callbacks of equal
   priority in subscription order. *)
C2_StableTies ==
    /\ \A e \in EventTypes :
        ~InAddCallback(e) =>
            CallbacksOf(callbacks_[e]) = CallbacksOf(StableOrder(callbacks_[e]))
    /\ \A f \in PublishFrames :
        CallbacksOf(f.copy) = CallbacksOf(StableOrder(f.copy))

\* thread t's innermost frame after a step that leaves its stack as deep
NewTop(t) == stack'[t][Len(stack[t])]

\* This step ends thread t's innermost call, of operation o: the call
\* returns, throws, or blocks for ever.
CallEnds(t, o) ==
    /\ stack[t] # <<>>
    /\ Top(t).op = o
    /\ Top(t).pc \notin {"done", "deadlocked"}
    /\ Len(stack'[t]) = Len(stack[t])
    /\ NewTop(t).pc \in {"done", "deadlocked"}

\* the entries of s whose callback equals cb
Matches(s, cb) == {k \in 1..Len(s) : CallbackEq(s[k].first, cb)}

\* s without the first entry whose callback equals cb
WithoutFirstMatch(s, cb) ==
    LET k == CHOOSE m \in Matches(s, cb) : \A n \in Matches(s, cb) : m <= n
    IN  SubSeq(s, 1, k - 1) \o SubSeq(s, k + 1, Len(s))

(* C3: on a bus with std::mutex no call blocks for ever on a lock, and every
   Unsubscribe call that ends has returned true or false. *)
C3_NoCallBlocksForever ==
    mutexPolicy = "std_mutex" =>
        \A f \in AllFrames :
            /\ f.pc # "deadlocked"
            /\ (f.op = "Unsubscribe" /\ f.pc = "done") =>
                    f.ret \in {"true", "false"}

(* C4: an Unsubscribe call for a callback that has k >= 1 equal entries in
   the list of its event type ends with the first of them removed and every
   other entry of every list in place, in the same order. *)
C4_RemovesExactlyOne ==
    [][\A t \in Threads :
        (/\ CallEnds(t, "Unsubscribe")
         /\ Matches(callbacks_[Top(t).ev], Top(t).cb) # {})
        => callbacks_' = [callbacks_ EXCEPT
                ![Top(t).ev] = WithoutFirstMatch(@, Top(t).cb)]]_vars

\* the entries a Publish has invoked were in the list before its snapshot,
\* and a Publish that has returned true has invoked its whole snapshot
C5_Inv ==
    \A f \in PublishFrames :
        /\ \A k \in 1..Len(f.invoked) : f.invoked[k].seq < f.startSeq
        /\ (f.pc = "done" /\ f.ret = "true") => f.invoked = f.copy

\* the snapshot of a Publish is the list of its event type as it is then
C5_Step ==
    \A t \in Threads :
        (HasTop(t, "Publish", "get_callbacks") /\ stack'[t] # stack[t])
        => NewTop(t).copy = callbacks_[Top(t).ev]

(* C5: a callback subscribed after a Publish took its snapshot (so also one
   subscribed by a callback that this Publish runs) is not invoked by this
   Publish; the snapshot of a later Publish of the type holds every entry
   then in the list, and the Publish invokes them all. *)
C5_SnapshotIsolationOnAdd == []C5_Inv /\ [][C5_Step]_vars

\* C5 happens: while a Publish of an event type is delivering, a callback it
\* runs has subscribed a new callback and then published the type again;
\* the inner Publish has invoked the new callback, the outer has not.
C5_Witness ==
    \E t \in Threads : \E k, m \in 1..Len(stack[t]) :
        /\ k < m
        /\ stack[t][k].op = "Publish" /\ stack[t][k].pc = "deliver"
        /\ stack[t][m].op = "Publish" /\ stack[t][m].ev = stack[t][k].ev
        /\ \E n \in 1..Len(stack[t][m].invoked) :
                stack[t][m].invoked[n].seq >= stack[t][k].startSeq

(* C6: on a bus with std::mutex, a call of Subscribe, Unsubscribe or Publish
   made by a callback that Publish is running neither blocks for ever nor
   throws. *)
C6_ReentrantCallCompletes ==
    mutexPolicy = "std_mutex" =>
        \A t \in Threads : \A k \in 2..Len(stack[t]) :
            stack[t][k - 1].op = "callback" =>
                /\ stack[t][k].pc # "deadlocked"
                /\ stack[t][k].ret # "exception"

\* a list holds, and a Publish invokes, only callbacks of its event type
C7_Inv ==
    /\ \A e \in EventTypes : \A k \in 1..Len(callbacks_[e]) :
            callbacks_[e][k].first.T = e
    /\ \A f \in PublishFrames : \A k \in 1..Len(f.invoked) :
            f.invoked[k].first.T = f.ev

\* a step of a Subscribe or Unsubscribe call leaves the list of every other
\* event type as it is
C7_Step ==
    \A t \in Threads : \A e \in EventTypes :
        (/\ stack'[t] # stack[t]
         /\ stack[t] # <<>>
         /\ Top(t).op \in {"Subscribe", "Unsubscribe"}
         /\ Top(t).ev # e)
        => callbacks_'[e] = callbacks_[e]

(* C7: a Publish of event type B invokes only callbacks subscribed for B, and
   a Subscribe or Unsubscribe for type A never changes the list of type B. *)
C7_TypeIsolation == []C7_Inv /\ [][C7_Step]_vars

\* C7 happens: with a callback subscribed for A, a Publish of B has invoked
\* the callback of B and returned.
C7_Witness ==
    /\ callbacks_["A"] # <<>>
    /\ \E f \in PublishFrames :
        f.ev = "B" /\ f.pc = "done" /\ Len(f.invoked) >= 1

(* C8: a Publish call ends by returning true or false.  It returns false only
   if no Subscribe call for its event type has returned, and then it has
   invoked nothing; it returns true only if a Subscribe call for the type
   was made (so also when Unsubscribe has emptied the list since). *)
C8_PublishResult ==
    [][\A t \in Threads :
        CallEnds(t, "Publish") =>
            /\ NewTop(t).pc = "done"
            /\ NewTop(t).ret \in {"true", "false"}
            /\ NewTop(t).ret = "false" =>
                    (Top(t).ev \notin subReturned /\ NewTop(t).invoked = <<>>)
            /\ NewTop(t).ret = "true" => Top(t).ev \in subStarted]_vars

\* C8 happens: a Publish has returned true with an empty snapshot, after
\* Unsubscribe removed every entry of the list.
C8_Witness ==
    \E f \in PublishFrames :
        f.pc = "done" /\ f.ret = "true" /\ f.copy = <<>>

(* C9: an Unsubscribe call ends by returning false when no handler exists for
   its event type and by returning true when one exists. *)
C9_UnsubscribeResult ==
    [][\A t \in Threads :
        CallEnds(t, "Unsubscribe") =>
            /\ NewTop(t).pc = "done"
            /\ NewTop(t).ret = (IF Top(t).ev \in handlers THEN "true"
                                                           ELSE "false")]_vars

(* C10: every step of an Unsubscribe call for a callback that has no equal
   entry in the list of its event type leaves handlers and every list as
   they are and invokes no callback, and the call neither blocks for ever
   nor throws. *)
C10_AbsentIsNoOp ==
    [][\A t \in Threads :
        (/\ stack'[t] # stack[t]
         /\ stack[t] # <<>>
         /\ Top(t).op = "Unsubscribe"
         /\ Top(t).pc # "done"
         /\ Matches(callbacks_[Top(t).ev], Top(t).cb) = {})
        => /\ callbacks_' = callbacks_
           /\ handlers' = handlers
           /\ Len(stack'[t]) = Len(stack[t])
           /\ NewTop(t).pc # "deadlocked"
           /\ NewTop(t).ret # "exception"]_vars

(* ------------------------------------------------------------------ *)
(* C11: identity equality of callbacks                                  *)
(* ------------------------------------------------------------------ *)

\* the variant of a callback with the identity fields of that variant
Identity(cb) ==
    IF cb.callback_type = "Function"
    THEN <<"Function", cb.func_ptr>>
    ELSE <<"Method", cb.method_info.instance, cb.method_info.method_ptr,
           cb.method_info.instance_type>>

\* C11: a == b is true exactly when a and b are of the same variant and the
\* identity fields of that variant match (a function never equals a
\* method, and func takes no part); for two wrappers as constructed that
\* is: the same function, or the same receiver, method and owner type.
C11_IdentityEquality ==
    obj.eq # "none" =>
        /\ obj.eq = "true" <=> Identity(obj.a) = Identity(obj.b)
        /\ (obj.a = obj.a0 /\ obj.b = obj.b0) =>
                (obj.eq = "true" <=> obj.a0 = obj.b0)
        /\ obj.a.callback_type # obj.b.callback_type => obj.eq = "false"

\* two method callbacks that compare equal although their func differ
C11_Witness ==
    /\ obj.eq = "true"
    /\ obj.a.callback_type = "Method"
    /\ obj.a.func # obj.b.func

(* ------------------------------------------------------------------ *)
(* C12: the demo of main.cpp                                            *)
(* ------------------------------------------------------------------ *)

\* the snapshot of f is base_attack at High and Player::attack at Default
DemoSnapshot(f) ==
    /\ f.ev = "A"
    /\ Len(f.copy) = 2
    /\ {<<f.copy[k].first, f.copy[k].second>> : k \in 1..2}
            = {<<cbFunc, High>>, <<cbMethod, Default>>}

\* C12: with base_attack subscribed at High and Player::attack at Default,
\* a Publish of an event with damage 0 invokes base_attack first (damage
\* becomes 1), then Player::attack on the same event, and returns with
\* damage 151.
C12_Demo ==
    \A f \in PublishFrames : DemoSnapshot(f) =>
        /\ Len(f.invoked) = 0 => f.arg = 0
        /\ Len(f.invoked) = 1 => f.invoked[1].first = cbFunc /\ f.arg = 1
        /\ Len(f.invoked) = 2 =>
                CallbacksOf(f.invoked) = <<cbFunc, cbMethod>> /\ f.arg = 151
        /\ f.pc = "done" => Len(f.invoked) = 2

\* the Publish of the demo, on a null_mutex bus, has returned
C12_Witness ==
    /\ mutexPolicy = "null_mutex"
    /\ \E f \in PublishFrames :
            DemoSnapshot(f) /\ f.pc = "done" /\ f.ret = "true" /\ f.arg = 151

(* ------------------------------------------------------------------ *)
(* C13: callbacks run with no lock held                                 *)
(* ------------------------------------------------------------------ *)

\* C13: whenever a user callback invoked by Publish is running on a
\* thread, that thread holds neither the registry lock mutex_ nor the lock
\* of any handler list.
C13_CallbacksRunLockFree ==
    \A t \in Threads :
        (stack[t] # <<>> /\ Top(t).op = "callback") =>
            /\ mutex_ # t
            /\ \A e \in EventTypes : handlerMutex[e] # t

\* on a std::mutex bus a callback runs on t1 while t2 holds the registry
\* lock
C13_Witness ==
    /\ mutexPolicy = "std_mutex"
    /\ HasTop("t1", "callback", "running")
    /\ mutex_ = "t2"

(* ------------------------------------------------------------------ *)
(* C14: list entries are accessed under the list's own lock             *)
(* ------------------------------------------------------------------ *)

\* thread t takes the snapshot of Publish in this step
TakesSnapshot(t) ==
    /\ HasTop(t, "Publish", "get_callbacks")
    /\ stack'[t] # stack[t]

\* C14: on a bus with a real mutex, the step in which Publish copies the
\* entries of a list is taken by a thread that holds the lock of that
\* list, and every step that changes the entries of a list is taken with
\* the lock of that list held.
C14_ListAccessUnderListLock ==
    [][mutexPolicy = "std_mutex" =>
        /\ \A t \in Threads :
                TakesSnapshot(t) => handlerMutex[Index(Top(t).ev)] = t
        /\ \A e \in EventTypes :
                callbacks_'[e] # callbacks_[e] =>
                    handlerMutex[e] # NoThread \/ handlerMutex'[e] # NoThread
      ]_vars

(* ------------------------------------------------------------------ *)
(* C15: release                                                         *)
(* ------------------------------------------------------------------ *)

\* C15: once a has been released, a.invoke calls nothing, a still equals a
\* fresh wrapper of the function, or object and method, it was built from,
\* and a == b gives what it gave for a as constructed.
C15_ReleaseKeepsEquality ==
    obj.a # obj.a0 =>
        /\ obj.ran # "called"
        /\ CallbackEq(obj.a, obj.a0)
        /\ obj.b = obj.b0 /\ obj.eq # "none" =>
                (obj.eq = "true" <=> CallbackEq(obj.a0, obj.b0))

(* ------------------------------------------------------------------ *)
(* C16: snapshot isolation on remove                                    *)
(* ------------------------------------------------------------------ *)

\* the Publish frame whose callback made thread t's innermost call
Publisher(t) == stack[t][Len(stack[t]) - 2]

\* Thread t's innermost call is an Unsubscribe made by a callback that a
\* Publish of the same event type runs, of a callback D that the snapshot
\* of that Publish holds and the Publish has not invoked yet.
UnsubscribesPending(t) ==
    /\ Len(stack[t]) >= 3
    /\ Top(t).op = "Unsubscribe"
    /\ Publisher(t).op = "Publish"
    /\ Publisher(t).ev = Top(t).ev
    /\ \E j \in (Publisher(t).i + 1)..Len(Publisher(t).copy) :
            CallbackEq(Publisher(t).copy[j].first, Top(t).cb)

\* such an Unsubscribe neither blocks for ever nor throws, and a Publish
\* that has returned true has invoked its whole snapshot, D included
C16_Inv ==
    /\ \A t \in Threads :
            UnsubscribesPending(t) =>
                Top(t).pc # "deadlocked" /\ Top(t).ret # "exception"
    /\ \A f \in PublishFrames :
            (f.pc = "done" /\ f.ret = "true") => f.invoked = f.copy

\* such an Unsubscribe takes the first entry equal to D out of the list and
\* leaves the snapshot of the running Publish as it is; and the snapshot a
\* Publish takes is the list as it is then, so without the entry taken out
C16_Step ==
    \A t \in Threads :
        /\ (UnsubscribesPending(t) /\ CallEnds(t, "Unsubscribe")) =>
                /\ callbacks_'[Top(t).ev] =
                        IF Matches(callbacks_[Top(t).ev], Top(t).cb) = {}
                        THEN callbacks_[Top(t).ev]
                        ELSE WithoutFirstMatch(callbacks_[Top(t).ev], Top(t).cb)
                /\ stack'[t][Len(stack[t]) - 2] = Publisher(t)
        /\ (HasTop(t, "Publish", "get_callbacks") /\ stack'[t] # stack[t]) =>
                /\ NewTop(t).copy = callbacks_[Top(t).ev]
                /\ NewTop(t).invoked = <<>>

(* C16: when a callback running inside Publish(E) unsubscribes a callback D
   that is in the snapshot of that Publish and not yet invoked, D is still
   invoked once by that Publish, and D is not in the list, so not invoked,
   when the next Publish of E takes its snapshot. *)
C16_SnapshotIsolationOnRemove == []C16_Inv /\ [][C16_Step]_vars

(* ------------------------------------------------------------------ *)
(* C17: delivery is exactly once, synchronous, on the caller's event    *)
(* ------------------------------------------------------------------ *)

RECURSIVE InvokeAll(_, _)
\* the event d after invoke has been called with it on each entry of s in
\* turn
InvokeAll(s, d) ==
    IF s = <<>> THEN d
    ELSE InvokeAll(Tail(s), InvokeArg(Head(s).first, d))

\* C17: what a Publish has invoked is, entry by entry, the beginning of its
\* snapshot (so each entry at most once, an identity subscribed n times
\* up to n times), and the whole snapshot once the Publish has returned
\* true; every invocation was made with the one event of the caller; the
\* callback that is running was called on the thread of the Publish, by
\* the frame below it, which is still in its loop; a call that has
\* returned is the innermost frame of its thread; and a Publish whose
\* callback has returned can always take the next turn of its loop or
\* return.
C17_DeliversSnapshotOnce ==
    \A t \in Threads : \A k \in 1..Len(stack[t]) :
        LET f == stack[t][k] IN
        /\ f.op = "Publish" =>
            /\ Len(f.invoked) <= Len(f.copy)
            /\ f.invoked = SubSeq(f.copy, 1, Len(f.invoked))
            /\ (f.pc = "done" /\ f.ret = "true") => f.invoked = f.copy
            /\ f.arg = InvokeAll(f.invoked, NewEvent)
        /\ f.op = "callback" =>
            /\ k > 1
            /\ stack[t][k - 1].op = "Publish"
            /\ stack[t][k - 1].pc = "deliver"
            /\ stack[t][k - 1].ev = f.ev
            /\ stack[t][k - 1].invoked # <<>>
            /\ stack[t][k - 1].invoked[Len(stack[t][k - 1].invoked)].first = f.cb
        /\ f.pc = "done" => k = Len(stack[t])
        /\ (f.op = "Publish" /\ f.pc = "deliver" /\ k = Len(stack[t])) =>
                ENABLED (Invoke(t) \/ PublishDone(t))

\* a Publish has returned after invoking Player::attack twice, for the two
\* entries of the same identity, on the same event
C17_Witness ==
    \E f \in PublishFrames :
        /\ f.pc = "done"
        /\ f.ret = "true"
        /\ CallbacksOf(f.invoked) = <<cbMethod, cbMethod>>
        /\ f.arg = 2 * AttackDamage

(* ------------------------------------------------------------------ *)
(* C18: the registry of handler lists                                   *)
(* ------------------------------------------------------------------ *)

\* The types with a handler are types Subscribe was called for, among
\* them every type a Subscribe call has returned for; a type Subscribe was
\* called for has no handler only while such a call still waits for the
\* registry lock; a type without a handler has no entries.
C18_Inv ==
    /\ subReturned \subseteq handlers
    /\ handlers \subseteq subStarted
    /\ \A e \in subStarted \ handlers :
            \E f \in AllFrames : f.op = "Subscribe" /\ f.ev = e /\ f.pc = "lock"
    /\ \A e \in EventTypes \ handlers : callbacks_[e] = <<>>

\* no step takes a handler out of the registry, and the step of Subscribe
\* that looks the handler up leaves the list of a type that has one as it
\* is
C18_Step ==
    /\ handlers \subseteq handlers'
    /\ \A t \in Threads :
            (HasTop(t, "Subscribe", "lock") /\ stack'[t] # stack[t]) =>
                \A e \in handlers : callbacks_'[e] = callbacks_[e]

(* C18: the types that have a handler list are the types Subscribe has been
   called for; the list of a type (one per type) is made by the first
   Subscribe of the type and is never removed or replaced, not by a later
   Subscribe and not by an Unsubscribe that empties it. *)
C18_RegistryOnlyGrows == []C18_Inv /\ [][C18_Step]_vars

\* the list of A, emptied by Unsubscribe after Subscribe returned, is still
\* registered, and B, never subscribed, has none
C18_Witness ==
    /\ "A" \in subReturned
    /\ "A" \in handlers
    /\ callbacks_["A"] = <<>>
    /\ \A f \in AllFrames : f.op # "Subscribe"
    /\ "B" \notin handlers

(* ------------------------------------------------------------------ *)
(* C19: retrying Subscribe and Unsubscribe                              *)
(* ------------------------------------------------------------------ *)

\* thread t's Subscribe call is about to push an entry equal, in callback
\* and priority, to the entry that the Subscribe call before it pushed
\* and that is still in the list
RepeatsSubscribe(t) ==
    /\ HasTop(t, "Subscribe", "add_callback")
    /\ \E k \in 1..Len(callbacks_[Top(t).ev]) :
            /\ callbacks_[Top(t).ev][k].seq = nextSeq - 1
            /\ CallbackEq(callbacks_[Top(t).ev][k].first, Top(t).cb)
            /\ callbacks_[Top(t).ev][k].second = Top(t).prio

\* C19 (as stated): Subscribe is idempotent under retry: in a program of
\* one thread, a Subscribe call that repeats the Subscribe call before it
\* leaves the list of its type as the first call left it.
C19_RetryIsIdempotent ==
    [][\A t \in Threads :
        (threads = {MainThread} /\ RepeatsSubscribe(t) /\ stack'[t] # stack[t])
        => callbacks_'[Top(t).ev] = callbacks_[Top(t).ev]]_vars

\* a Publish that has returned true made one invocation for each entry of
\* its snapshot, equal entries included
C19_Inv ==
    \A f \in PublishFrames :
        (f.pc = "done" /\ f.ret = "true") =>
            \A cb \in Callbacks :
                Cardinality(Matches(f.invoked, cb)) = Cardinality(Matches(f.copy, cb))

\* every push_back of Subscribe makes the list one entry longer, equal
\* entry present or not; the erase of an Unsubscribe takes out one entry
\* equal to its callback if there is one and nothing otherwise
C19_Step ==
    \A t \in Threads :
        /\ (HasTop(t, "Subscribe", "add_callback") /\ stack'[t] # stack[t]) =>
                /\ Len(callbacks_'[Top(t).ev]) = Len(callbacks_[Top(t).ev]) + 1
                /\ Cardinality(Matches(callbacks_'[Top(t).ev], Top(t).cb))
                        = Cardinality(Matches(callbacks_[Top(t).ev], Top(t).cb)) + 1
        /\ (HasTop(t, "Unsubscribe", "erase") /\ stack'[t] # stack[t]) =>
                callbacks_'[Top(t).ev] =
                    IF Matches(callbacks_[Top(t).ev], Top(t).cb) = {}
                    THEN callbacks_[Top(t).ev]
                    ELSE WithoutFirstMatch(callbacks_[Top(t).ev], Top(t).cb)

(* C19 (amended): Subscribe and Unsubscribe are not idempotent under retry.
   Every Subscribe call adds one entry, also when an equal entry is in the
   list, and a later Publish invokes the callback once for each of its
   entries; an Unsubscribe call that gets to its erase removes one entry
   equal to its callback, so a repeated Unsubscribe changes nothing only
   when no equal entry is left. *)
C19_EveryCallCounts == []C19_Inv /\ [][C19_Step]_vars

\* after Subscribe(base_attack) twice at the same priority, a Publish has
\* invoked base_attack twice
C19_Witness ==
    \E f \in PublishFrames :
        /\ f.pc = "done"
        /\ f.ret = "true"
        /\ CallbacksOf(f.invoked) = <<cbFunc, cbFunc>>
        /\ f.invoked[1].second = f.invoked[2].second

(* ------------------------------------------------------------------ *)
(* C20: the snapshot is atomic with respect to concurrent Subscribe     *)
(* ------------------------------------------------------------------ *)

\* the snapshot of every Publish is in priority order and holds only
\* entries whose push_back was made before the snapshot was taken
C20_Inv ==
    mutexPolicy = "std_mutex" =>
        \A f \in PublishFrames :
            /\ NonIncreasing(f.copy)
            /\ \A k \in 1..Len(f.copy) : f.copy[k].seq < f.startSeq

\* when a Publish takes its snapshot no Subscribe call is between the
\* push_back and the sort of add_callback on that list, and the snapshot
\* is the whole list as it is then
C20_Step ==
    mutexPolicy = "std_mutex" =>
        \A t \in Threads :
            (HasTop(t, "Publish", "get_callbacks") /\ stack'[t] # stack[t]) =>
                /\ ~InAddCallback(Top(t).ev)
                /\ NewTop(t).copy = callbacks_[Top(t).ev]
                /\ NonIncreasing(callbacks_[Top(t).ev])

(* C20: on a bus with a real mutex, with Subscribe and Publish of one event
   type running on different threads, the snapshot of each Publish is the
   list as it was at one instant between completed Subscribe calls: sorted,
   with each entry of a concurrent Subscribe either wholly in it or not in
   it, never the list between append and sort. *)
C20_AtomicSnapshot == []C20_Inv /\ [][C20_Step]_vars

\* t1 delivers a snapshot of one entry while the Subscribe of t2 of the
\* same type is between its push_back and its sort
C20_Witness ==
    /\ mutexPolicy = "std_mutex"
    /\ stack["t1"] # <<>>
    /\ stack["t2"] # <<>>
    /\ Top("t1").op = "Publish"
    /\ Top("t1").pc = "deliver"
    /\ Len(Top("t1").copy) = 1
    /\ HasTop("t2", "Subscribe", "sort")
    /\ Top("t2").ev = Top("t1").ev
    /\ Len(callbacks_[Top("t1").ev]) = 2


====
